---- MODULE Spec2Model ----
(***************************************************************************)
(* Model of src/basic_recommender.py: the interactive movie recommender.   *)
(*                                                                         *)
(* Text is modelled as tuples of one-character strings.  Ratings and       *)
(* predicted scores are in tenths of a star (0.5 -> 5, 3.0 -> 30,          *)
(* 5.0 -> 50); a predicted score is a fraction <<num, den>> of tenths.     *)
(* A Python value that can be an int or a str (a raw user / item id) is    *)
(* a record [t |-> "int" | "str", v |-> n].                                *)
(***************************************************************************)
EXTENDS Integers, Sequences, FiniteSets, TLC

VARIABLES
    movies,        \* the catalog DataFrame (rows with the year column added)
    ratings,       \* the base ratings DataFrame
    pc,            \* position in __main__ (or in the function harness)
    genre,         \* the genre text read from the console
    min_year,      \* the parsed minimum year
    sample,        \* rows (catalog indices) returned by the sampler
    i,             \* loop position of get_user_ratings
    responses,     \* the console responses read by get_user_ratings so far
    user_ratings,  \* the list built by get_user_ratings
    all_ratings,   \* result of append_user_data
    model,         \* what the fitted model knows: raw ids and global mean
    predictions,   \* the predictions (uid, iid, est) model.predict returned
    top_n,         \* top_n argument of train_and_recommend
    recs,          \* result of train_and_recommend
    out,           \* console output, one entry per printed line / prompt
    calls,         \* functions called by __main__, in call order
    fault          \* the exception that left __main__ unhandled, or "none"

vars == <<movies, ratings, pc, genre, min_year, sample, i, responses,
          user_ratings, all_ratings, model, predictions, top_n,
          recs, out, calls, fault>>

\* Sentinels: a raised ValueError in place of a parsed number, the NaN of
\* the year column (extract_year returned None), a missing text cell.
ValueError == -1
NaN == -2
NoText == <<"NaN">>

\* ---------------------------------------------------------------- bounds
MaxBase == 2
MaxAdd == 2
MaxPreds == 4
MaxTopN == 3
MaxCatalog == 3

\* ------------------------------------------------------ program constants
USER_ID == 9999
DEFAULT_N == 15
MAIN_TOP_N == 5
MIN_ACCEPT == 5
EST_THRESHOLD == 30
SCALE_LOW == 5
SCALE_HIGH == 50

\* ------------------------------------------------------------------ text
Digits == {"0", "1", "2", "3", "4", "5", "6", "7", "8", "9"}

DigitVal(c) ==
    CASE c = "0" -> 0 [] c = "1" -> 1 [] c = "2" -> 2 [] c = "3" -> 3
      [] c = "4" -> 4 [] c = "5" -> 5 [] c = "6" -> 6 [] c = "7" -> 7
      [] c = "8" -> 8 [] c = "9" -> 9

RECURSIVE DecimalVal(_)
DecimalVal(s) ==
    IF s = <<>> THEN 0
    ELSE 10 * DecimalVal(SubSeq(s, 1, Len(s) - 1)) + DigitVal(s[Len(s)])

AllDigits(s) == \A k \in 1..Len(s) : s[k] \in Digits

\* int(text): digits only in the modelled alphabet; anything else raises.
ParseInt(s) ==
    IF Len(s) > 0 /\ AllDigits(s) THEN DecimalVal(s) ELSE ValueError

\* float(text), in tenths: digits with at most one "." and at least one
\* digit; the modelled inputs carry at most one fractional digit.
ParseFloat(s) ==
    LET dots == {k \in 1..Len(s) : s[k] = "."}
    IN  IF \E k \in 1..Len(s) : s[k] \notin Digits \cup {"."} THEN ValueError
        ELSE IF Cardinality(dots) > 1 THEN ValueError
        ELSE IF Cardinality(dots) = 0
             THEN IF Len(s) = 0 THEN ValueError ELSE 10 * DecimalVal(s)
        ELSE LET d == CHOOSE k \in dots : TRUE
                 ip == SubSeq(s, 1, d - 1)
                 fp == SubSeq(s, d + 1, Len(s))
             IN  IF Len(ip) + Len(fp) = 0 \/ Len(fp) > 1 THEN ValueError
                 ELSE 10 * DecimalVal(ip) + DecimalVal(fp)

\* re.IGNORECASE folding of the modelled letters.
Lower(c) ==
    CASE c = "A" -> "a" [] c = "C" -> "c" [] c = "D" -> "d" [] OTHER -> c

\* re.search(r"\((\d{4})\)", title): the first "(dddd)" of the title.
YearStarts(title) ==
    {k \in 1..(Len(title) - 5) :
        /\ title[k] = "("
        /\ \A j \in 1..4 : title[k + j] \in Digits
        /\ title[k + 5] = ")"}

Least(S) == CHOOSE x \in S : \A y \in S : x <= y

extract_year(title) ==
    IF YearStarts(title) = {} THEN NaN
    ELSE LET k == Least(YearStarts(title))
         IN  DecimalVal(SubSeq(title, k + 1, k + 4))

\* The alternatives of a pattern: pandas' str.contains takes the pattern
\* as a regular expression (regex=True is its default), so "|" separates
\* alternatives and "." matches any character.  Other metacharacters are
\* outside the modelled alphabet.
Bars(pat) == {0, Len(pat) + 1} \cup {k \in 1..Len(pat) : pat[k] = "|"}

Alternatives(pat) ==
    {SubSeq(pat, a + 1, b - 1) : <<a, b>> \in
        {p \in Bars(pat) \X Bars(pat) :
            p[1] < p[2] /\ ~\E m \in Bars(pat) : p[1] < m /\ m < p[2]}}

MatchAt(alt, text, k) ==
    \A j \in 1..Len(alt) :
        alt[j] = "." \/ Lower(alt[j]) = Lower(text[k + j - 1])

RegexSearch(pat, text) ==
    \E alt \in Alternatives(pat) :
        \E k \in 1..(Len(text) - Len(alt) + 1) : MatchAt(alt, text, k)

\* Series.str.contains(pat, case=False, na=False) for one cell.
str_contains(text, pat) ==
    IF text = NoText THEN FALSE ELSE RegexSearch(pat, text)

\* ------------------------------------------------------------ input data
\* Rows of movies.csv (movieId, title, genres) the catalogs are cut from.
CsvMovies ==
    << [movieId |-> 1, title |-> <<"A", "(", "1", "9", "9", "9", ")">>,
        genres |-> <<"c">>],
       [movieId |-> 2, title |-> <<"B", "(", "2", "0", "0", "0", ")">>,
        genres |-> <<"C", "|", "d">>],
       [movieId |-> 3, title |-> <<"D", "(", "2", "0", "0", "1", ")">>,
        genres |-> <<"d">>],
       [movieId |-> 4, title |-> <<"E">>, genres |-> <<"c">>],
       [movieId |-> 5, title |-> <<"F", "(", "2", "0", "0", "1", ")">>,
        genres |-> NoText] >>

\* Rows of ratings.csv the base tables are cut from.
CsvRatings ==
    << [userId |-> 1, movieId |-> 1, rating |-> 45],
       [userId |-> 2, movieId |-> 2, rating |-> 10],
       [userId |-> USER_ID, movieId |-> 3, rating |-> 40],
       [userId |-> 1, movieId |-> 3, rating |-> 50] >>

Windows(rows, maxLen) ==
    {SubSeq(rows, a, b) : <<a, b>> \in
        {p \in (1..Len(rows)) \X (0..Len(rows)) :
            p[2] >= p[1] - 1 /\ p[2] - p[1] + 1 <= maxLen
            /\ (p[2] = p[1] - 1 => p[1] = 1)}}

\* movies["year"] = movies["title"].apply(extract_year)
LoadMovies(rows) ==
    [k \in 1..Len(rows) |->
        [movieId |-> rows[k].movieId, title |-> rows[k].title,
         genres |-> rows[k].genres, year |-> extract_year(rows[k].title)]]

GenreInputs == {<<"c">>, <<"D">>, <<"c", "|", "d">>, <<"a">>}
MinYearInputs == {<<"1", "9", "9", "9">>, <<"2", "0", "0", "0">>, <<"x">>}
RatingInputs == {<<"0">>, <<"2">>, <<"4", ".", "5">>, <<"7">>, <<"x">>}
LearnedEsts == {<<25, 1>>, <<45, 1>>}

\* --------------------------------------------------------------- helpers
\* One printed line or prompt: what it says, and the title and score it
\* shows (the score is shown with two decimals).
Shown(msg, title, est) == [msg |-> msg, title |-> title, est |-> est]
Line(msg) == Shown(msg, <<>>, <<0, 1>>)

Min(a, b) == IF a <= b THEN a ELSE b

IntId(n) == [t |-> "int", v |-> n]
\* str(n): the decimal text of n, which is no int.
Str(n) == [t |-> "str", v |-> n]
\* int(text) of a text produced by str().
IntOf(x) == x.v

\* pandas comparisons with NaN are False.
YearGE(y, m) == y # NaN /\ y >= m
YearGT(y, m) == y # NaN /\ y > m

Injective(s) == \A a, b \in DOMAIN s : a # b => s[a] # s[b]

\* --------------------------------------------------- candidate sampler
\* The rows that pass the genre / year mask (catalog indices).
SamplePool(g, my) ==
    {k \in 1..Len(movies) :
        str_contains(movies[k].genres, g) /\ YearGE(movies[k].year, my)}

\* DataFrame.sample(k): k distinct rows in any order.
DataFrameSample(pool, k) == {s \in [1..k -> pool] : Injective(s)}

get_movies_by_genre_and_year(g, my, n) ==
    LET pool == SamplePool(g, my)
    IN  IF pool = {}
        THEN [raised |-> TRUE, samples |-> {}]
        ELSE [raised |-> FALSE,
              samples |-> DataFrameSample(pool, Min(n, Cardinality(pool)))]

\* ------------------------------------------------------ rating collector
\* One iteration of the loop body for `row` with console response `resp`.
RatingStep(row, resp, acc) ==
    LET rating == ParseFloat(resp)
    IN  IF rating = ValueError
        THEN [user_ratings |-> acc, printed |-> <<Line("invalid")>>]
        ELSE IF rating >= MIN_ACCEPT
        THEN [user_ratings |->
                Append(acc, [userId |-> USER_ID, movieId |-> row.movieId,
                             rating |-> rating]),
              printed |-> <<>>]
        ELSE [user_ratings |-> acc, printed |-> <<>>]

\* -------------------------------------------------------- dataset merger
\* A concat with its arguments swapped.
append_user_data_swapped(existing_ratings, new_ratings) ==
    new_ratings \o existing_ratings

append_user_data(existing_ratings, new_ratings) ==
    existing_ratings \o new_ratings

\* -------------------------------------------------- recommendation engine
RECURSIVE SumRatings(_)
SumRatings(rs) ==
    IF rs = <<>> THEN 0 ELSE rs[1].rating + SumRatings(Tail(rs))

\* Dataset.load_from_df + build_full_trainset: the raw ids are the values
\* of the DataFrame columns (ints), the global mean is over every row.
BuildTrainset(rs) ==
    [users |-> {IntId(rs[k].userId) : k \in 1..Len(rs)},
     items |-> {IntId(rs[k].movieId) : k \in 1..Len(rs)},
     global_mean |-> <<SumRatings(rs), Len(rs)>>]

EstGT(a, b) == a[1] * b[2] > b[1] * a[2]

\* Prediction clipping to the Reader's rating scale.
Clip(e) ==
    IF EstGT(e, <<SCALE_HIGH, 1>>) THEN <<SCALE_HIGH, 1>>
    ELSE IF EstGT(<<SCALE_LOW, 1>>, e) THEN <<SCALE_LOW, 1>>
    ELSE e

\* model.predict(uid, iid): a raw id the trainset does not hold is an
\* unknown user / item; with both unknown SVD estimates the global mean,
\* otherwise the estimate comes from the learned biases and factors.
\* `learned` gives, per movie id, what the fitted parameters add up to.
Predict(mdl, learned, uid, iid) ==
    LET known_user == uid \in mdl.users
        known_item == iid \in mdl.items
    IN  [uid |-> uid, iid |-> iid,
         est |-> Clip(IF known_user \/ known_item
                      THEN learned[IntOf(iid)]
                      ELSE mdl.global_mean)]

\* A sort that puts a prediction ahead of the earlier ones of equal est.
InsertDescUnstable(acc, x) ==
    LET k == Cardinality({j \in 1..Len(acc) : EstGT(acc[j].est, x.est)})
    IN  SubSeq(acc, 1, k) \o <<x>> \o SubSeq(acc, k + 1, Len(acc))

\* sorted(..., key=est, reverse=True): descending and stable, so a
\* prediction goes behind every earlier one whose est is not smaller.
InsertDesc(acc, x) ==
    LET k == Cardinality({j \in 1..Len(acc) : ~EstGT(x.est, acc[j].est)})
    IN  SubSeq(acc, 1, k) \o <<x>> \o SubSeq(acc, k + 1, Len(acc))

RECURSIVE SortedDesc(_)
SortedDesc(ps) ==
    IF ps = <<>> THEN <<>>
    ELSE InsertDesc(SortedDesc(SubSeq(ps, 1, Len(ps) - 1)), ps[Len(ps)])

\* s[:n]
Slice(s, n) ==
    IF n >= 0 THEN SubSeq(s, 1, Min(n, Len(s)))
    ELSE SubSeq(s, 1, IF Len(s) + n > 0 THEN Len(s) + n ELSE 0)

AboveThreshold(p) == EstGT(p.est, <<EST_THRESHOLD, 1>>)

\* Lines 90-93: threshold, sort, truncate.
TopPredictions(preds, n) ==
    Slice(SortedDesc(SelectSeq(preds, AboveThreshold)), n)

\* movies[movies['movieId'] == int(pred.iid)]['title'].values[0]
TitleOf(iid) ==
    movies[Least({k \in 1..Len(movies) :
                    movies[k].movieId = IntOf(iid)})].title

\* Lines 96-100.
Results(top) ==
    [k \in 1..Len(top) |-> [title |-> TitleOf(top[k].iid), est |-> top[k].est]]

Seen(rs, user_id) ==
    {rs[k].movieId : k \in {j \in 1..Len(rs) : rs[j].userId = user_id}}

Filtered(rs, genre_filter, my, user_id) ==
    LET unseen(r) == r.movieId \notin Seen(rs, user_id)
        wanted(r) == /\ str_contains(r.genres, genre_filter)
                     /\ YearGT(r.year, my)
    IN  SelectSeq(SelectSeq(movies, unseen), wanted)

train_and_recommend(rs, genre_filter, my, user_id, n, learned) ==
    LET mdl == BuildTrainset(rs)
        filtered == Filtered(rs, genre_filter, my, user_id)
        preds == [k \in 1..Len(filtered) |->
                    Predict(mdl, learned, Str(user_id),
                            Str(filtered[k].movieId))]
    IN  IF filtered = <<>>
        THEN [model |-> mdl, predictions |-> <<>>, results |-> <<>>,
              printed |-> <<Line("no_unseen")>>]
        ELSE [model |-> mdl, predictions |-> preds,
              results |-> Results(TopPredictions(preds, n)),
              printed |-> <<>>]

\* ------------------------------------------------------------- __main__
NoModel == [users |-> {}, items |-> {}, global_mean |-> <<0, 1>>]

Init ==
    /\ movies \in {LoadMovies(w) : w \in Windows(CsvMovies, MaxCatalog)}
    /\ ratings \in Windows(CsvRatings, MaxBase)
    /\ pc = "genre"
    /\ genre = <<>>
    /\ min_year = 0
    /\ sample = <<>>
    /\ i = 0
    /\ responses = <<>>
    /\ user_ratings = <<>>
    /\ all_ratings = <<>>
    /\ model = NoModel
    /\ predictions = <<>>
    /\ top_n = MAIN_TOP_N
    /\ recs = <<>>
    /\ out = <<>>
    /\ calls = <<>>
    /\ fault = "none"

\* genre = input("Enter a genre (e.g., Comedy): ")
ReadGenre ==
    /\ pc = "genre"
    /\ \E g \in GenreInputs : genre' = g
    /\ out' = Append(out, Line("ask_genre"))
    /\ pc' = "min_year"
    /\ UNCHANGED <<movies, ratings, min_year, sample, i, responses,
                   user_ratings, all_ratings, model, predictions, top_n,
                   recs, calls, fault>>

\* min_year = int(input("Enter a minimum year (e.g., 2010): ")), outside
\* any try block.
ReadMinYear ==
    /\ pc = "min_year"
    /\ \E text \in MinYearInputs :
        IF ParseInt(text) = ValueError
        THEN /\ fault' = "ValueError"
             /\ pc' = "crash"
             /\ UNCHANGED min_year
        ELSE /\ min_year' = ParseInt(text)
             /\ pc' = "sample"
             /\ UNCHANGED fault
    /\ out' = Append(out, Line("ask_min_year"))
    /\ UNCHANGED <<movies, ratings, genre, sample, i, responses,
                   user_ratings, all_ratings, model, predictions, top_n,
                   recs, calls>>

\* try: sample = get_movies_by_genre_and_year(genre, min_year)
\* except ValueError: print, raise SystemExit
SampleMovies ==
    /\ pc = "sample"
    /\ calls' = Append(calls, "get_movies_by_genre_and_year")
    /\ LET r == get_movies_by_genre_and_year(genre, min_year, DEFAULT_N)
       IN  IF r.raised
           THEN /\ out' = Append(out, Line("no_match"))
                /\ pc' = "exit"
                /\ UNCHANGED sample
           ELSE /\ \E smp \in r.samples : sample' = smp
                /\ pc' = "rate_begin"
                /\ UNCHANGED out
    /\ UNCHANGED <<movies, ratings, genre, min_year, i, responses,
                   user_ratings, all_ratings, model, predictions, top_n,
                   recs, fault>>

\* get_user_ratings is entered: the header is printed, the list is empty.
BeginRatings ==
    /\ pc = "rate_begin"
    /\ calls' = Append(calls, "get_user_ratings")
    /\ out' = Append(out, Line("please_rate"))
    /\ user_ratings' = <<>>
    /\ i' = 1
    /\ pc' = "rate"
    /\ UNCHANGED <<movies, ratings, genre, min_year, sample, responses,
                   all_ratings, model, predictions, top_n, recs, fault>>

\* A loop whose try block encloses the for statement: the first invalid
\* response ends it.
RateMovieAborts ==
    /\ pc = "rate"
    /\ i <= Len(sample)
    /\ \E resp \in RatingInputs :
        LET row == movies[sample[i]]
            r == RatingStep(row, resp, user_ratings)
        IN  /\ responses' = Append(responses, resp)
            /\ user_ratings' = r.user_ratings
            /\ out' = Append(out, Shown("ask_rating", row.title, <<0, 1>>))
                        \o r.printed
            /\ i' = IF ParseFloat(resp) = ValueError
                    THEN Len(sample) + 1 ELSE i + 1
    /\ UNCHANGED <<movies, ratings, pc, genre, min_year, sample,
                   all_ratings, model, predictions, top_n, recs, calls,
                   fault>>

\* One iteration of `for _, row in movie_sample.iterrows()`.
RateMovie ==
    /\ pc = "rate"
    /\ i <= Len(sample)
    /\ \E resp \in RatingInputs :
        LET row == movies[sample[i]]
            r == RatingStep(row, resp, user_ratings)
        IN  /\ responses' = Append(responses, resp)
            /\ user_ratings' = r.user_ratings
            /\ out' = Append(out, Shown("ask_rating", row.title, <<0, 1>>))
                        \o r.printed
    /\ i' = i + 1
    /\ UNCHANGED <<movies, ratings, pc, genre, min_year, sample,
                   all_ratings, model, predictions, top_n, recs, calls,
                   fault>>

\* A main program without the `if user_df.empty` exit.
EndRatingsNoCheck ==
    /\ pc = "rate"
    /\ i > Len(sample)
    /\ pc' = "merge"
    /\ UNCHANGED <<movies, ratings, genre, min_year, sample, i, responses,
                   user_ratings, all_ratings, model, predictions, top_n,
                   recs, out, calls, fault>>

\* get_user_ratings returns; `if user_df.empty` prints and exits.
EndRatings ==
    /\ pc = "rate"
    /\ i > Len(sample)
    /\ IF user_ratings = <<>>
       THEN /\ out' = Append(out, Line("no_ratings"))
            /\ pc' = "exit"
       ELSE /\ pc' = "merge"
            /\ UNCHANGED out
    /\ UNCHANGED <<movies, ratings, genre, min_year, sample, i, responses,
                   user_ratings, all_ratings, model, predictions, top_n,
                   recs, calls, fault>>

\* all_ratings = append_user_data(ratings, user_df)
Merge ==
    /\ pc = "merge"
    /\ calls' = Append(calls, "append_user_data")
    /\ all_ratings' = append_user_data(ratings, user_ratings)
    /\ pc' = "recommend"
    /\ UNCHANGED <<movies, ratings, genre, min_year, sample, i, responses,
                   user_ratings, model, predictions, top_n, recs, out,
                   fault>>

MovieIds == {movies[k].movieId : k \in 1..Len(movies)}

\* recs = train_and_recommend(all_ratings, genre, min_year, top_n=5)
Recommend ==
    /\ pc = "recommend"
    /\ calls' = Append(calls, "train_and_recommend")
    /\ \E learned \in [MovieIds -> LearnedEsts] :
        LET r == train_and_recommend(all_ratings, genre, min_year, USER_ID,
                                     top_n, learned)
        IN  /\ model' = r.model
            /\ predictions' = r.predictions
            /\ recs' = r.results
            /\ out' = out \o r.printed
    /\ pc' = "print"
    /\ UNCHANGED <<movies, ratings, genre, min_year, sample, i, responses,
                   user_ratings, all_ratings, top_n, fault>>

\* The header line, then one line per recommendation.
PrintRecs ==
    /\ pc = "print"
    /\ out' = Append(out, Line("top_recommendations"))
                \o [k \in 1..Len(recs) |->
                        Shown("rec", recs[k].title, recs[k].est)]
    /\ pc' = "done"
    /\ UNCHANGED <<movies, ratings, genre, min_year, sample, i, responses,
                   user_ratings, all_ratings, model, predictions, top_n,
                   recs, calls, fault>>

Next ==
    \/ ReadGenre
    \/ ReadMinYear
    \/ SampleMovies
    \/ BeginRatings
    \/ RateMovie
    \/ EndRatings
    \/ Merge
    \/ Recommend
    \/ PrintRecs

Spec == Init /\ [][Next]_vars

\* ------------------------------------------------ append_user_data alone
\* Rows a collector can add; the second repeats a row of ratings.csv.
AddRows ==
    << [userId |-> USER_ID, movieId |-> 1, rating |-> 45],
       [userId |-> USER_ID, movieId |-> 3, rating |-> 40],
       [userId |-> USER_ID, movieId |-> 2, rating |-> 5] >>

RECURSIVE SeqsUpTo(_, _)
SeqsUpTo(S, n) ==
    IF n = 0 THEN {<<>>}
    ELSE LET shorter == SeqsUpTo(S, n - 1)
         IN  shorter \cup {Append(q, x) : q \in shorter, x \in S}

Range(f) == {f[x] : x \in DOMAIN f}

InitMerge ==
    /\ movies = LoadMovies(CsvMovies)
    /\ ratings \in Windows(CsvRatings, MaxBase)
    /\ user_ratings \in SeqsUpTo(Range(AddRows), MaxAdd)
    /\ pc = "call_merge"
    /\ genre = <<>>
    /\ min_year = 0
    /\ sample = <<>>
    /\ i = 0
    /\ responses = <<>>
    /\ all_ratings = <<>>
    /\ model = NoModel
    /\ predictions = <<>>
    /\ top_n = MAIN_TOP_N
    /\ recs = <<>>
    /\ out = <<>>
    /\ calls = <<>>
    /\ fault = "none"

MergeCall ==
    /\ pc = "call_merge"
    /\ all_ratings' = append_user_data(ratings, user_ratings)
    /\ pc' = "merged"
    /\ UNCHANGED <<movies, ratings, genre, min_year, sample, i, responses,
                   user_ratings, model, predictions, top_n, recs, out,
                   calls, fault>>

SpecMerge == InitMerge /\ [][MergeCall]_vars

\* ------------------------------- ranking of train_and_recommend alone
RankEsts == {<<20, 1>>, <<30, 1>>, <<61, 2>>, <<40, 1>>}

\* Predictions for the first k catalog rows, in catalog order, with any
\* estimates.
PredictionLists ==
    UNION {{[j \in 1..k |->
                [uid |-> Str(USER_ID), iid |-> Str(CsvMovies[j].movieId),
                 est |-> e[j]]] : e \in [1..k -> RankEsts]}
           : k \in 0..Min(MaxPreds, Len(CsvMovies))}

InitRank ==
    /\ movies = LoadMovies(CsvMovies)
    /\ predictions \in PredictionLists
    /\ top_n \in 0..MaxTopN
    /\ pc = "call_rank"
    /\ ratings = <<>>
    /\ genre = <<>>
    /\ min_year = 0
    /\ sample = <<>>
    /\ i = 0
    /\ responses = <<>>
    /\ user_ratings = <<>>
    /\ all_ratings = <<>>
    /\ model = NoModel
    /\ recs = <<>>
    /\ out = <<>>
    /\ calls = <<>>
    /\ fault = "none"

RankCall ==
    /\ pc = "call_rank"
    /\ recs' = Results(TopPredictions(predictions, top_n))
    /\ pc' = "ranked"
    /\ UNCHANGED <<movies, ratings, genre, min_year, sample, i, responses,
                   user_ratings, all_ratings, model, predictions, top_n,
                   out, calls, fault>>

SpecRank == InitRank /\ [][RankCall]_vars

\* ================================================================ claims
\* What the specification means by "the genre tags contain the genre as a
\* case-insensitive substring".
ContainsIgnoreCase(text, pat) ==
    /\ text # NoText
    /\ \E k \in 1..(Len(text) - Len(pat) + 1) :
          \A j \in 1..Len(pat) : Lower(pat[j]) = Lower(text[k + j - 1])

Called(f) == \E k \in 1..Len(calls) : calls[k] = f
Printed(msg) == \E k \in 1..Len(out) : out[k].msg = msg
RowsTitled(title) == {k \in 1..Len(movies) : movies[k].title = title}
Returned == pc \in {"print", "done"}
Collected ==
    \/ pc \in {"merge", "recommend", "print", "done"}
    \/ pc = "exit" /\ Called("get_user_ratings")

\* C1: every movie train_and_recommend returns is absent from the user's
\* seen set, has genre tags containing the genre case-insensitively, and
\* has a defined year strictly greater than minYear.
C1_ReturnedPassFilter ==
    Returned =>
        \A k \in 1..Len(recs) : \A m \in RowsTitled(recs[k].title) :
            /\ movies[m].movieId \notin Seen(all_ratings, USER_ID)
            /\ ContainsIgnoreCase(movies[m].genres, genre)
            /\ movies[m].year # NaN
            /\ movies[m].year > min_year

\* C1, the part the code keeps: unseen and strictly newer than minYear.
C1_ReturnedUnseenAndNewer ==
    Returned =>
        \A k \in 1..Len(recs) : \A m \in RowsTitled(recs[k].title) :
            /\ movies[m].movieId \notin Seen(all_ratings, USER_ID)
            /\ movies[m].year # NaN
            /\ movies[m].year > min_year

\* C2: the result is the first topN of the predictions above 3.0 sorted
\* by descending score with ties in input order: its length is
\* min(topN, number above 3.0), every entry is a prediction above 3.0,
\* entries are in descending score order with equal scores in input
\* order, and every prediction above 3.0 left out ranks behind all of them.
PredIndex(title) ==
    CHOOSE k \in 1..Len(predictions) : TitleOf(predictions[k].iid) = title

Ahead(a, b) ==
    \/ EstGT(predictions[a].est, predictions[b].est)
    \/ /\ ~EstGT(predictions[b].est, predictions[a].est)
       /\ a < b

C2_TopNStableDescending ==
    pc = "ranked" =>
        LET kept == {k \in 1..Len(predictions) :
                        predictions[k].est[1] > 30 * predictions[k].est[2]}
            idx == [k \in 1..Len(recs) |-> PredIndex(recs[k].title)]
        IN  /\ Len(recs) = Min(top_n, Cardinality(kept))
            /\ Len(recs) <= top_n
            /\ \A k \in 1..Len(recs) :
                  /\ \E j \in kept : TitleOf(predictions[j].iid) = recs[k].title
                  /\ idx[k] \in kept
                  /\ recs[k].est = predictions[idx[k]].est
            /\ \A a, b \in 1..Len(recs) : a < b => Ahead(idx[a], idx[b])
            /\ \A j \in kept \ Range(idx) :
                  \A k \in 1..Len(recs) : Ahead(idx[k], j)

\* C2 witness: more predictions above 3.0 than topN, one at most 3.0, and
\* two returned entries with equal scores.
C2_Witness ==
    /\ pc = "ranked"
    /\ Len(recs) >= 2
    /\ Len(recs) = top_n
    /\ \E k \in 1..Len(predictions) : ~AboveThreshold(predictions[k])
    /\ Cardinality({k \in 1..Len(predictions) :
                        AboveThreshold(predictions[k])}) > top_n
    /\ \E a, b \in 1..Len(recs) : a # b /\ recs[a].est = recs[b].est
    /\ \E a \in 1..Len(recs), k \in 1..Len(predictions) :
          /\ AboveThreshold(predictions[k])
          /\ EstGT(recs[a].est, predictions[k].est)

\* C3: the sampler fails with the no-match error when no catalog movie has
\* genre tags containing the genre (case-insensitive) and a defined year
\* >= minYear, and otherwise returns min(poolSize, |filtered set|) distinct
\* movies that each satisfy that predicate.
ClaimedPool ==
    {k \in 1..Len(movies) :
        /\ ContainsIgnoreCase(movies[k].genres, genre)
        /\ movies[k].year # NaN
        /\ movies[k].year >= min_year}

C3_SampleContract ==
    Called("get_movies_by_genre_and_year") =>
        IF ClaimedPool = {}
        THEN pc = "exit" /\ Printed("no_match")
        ELSE /\ ~Printed("no_match")
             /\ Len(sample) = Min(DEFAULT_N, Cardinality(ClaimedPool))
             /\ Injective(sample)
             /\ \A k \in 1..Len(sample) : sample[k] \in ClaimedPool

\* C4: every rating get_user_ratings returns has user id 9999, the movie
\* id of a presented candidate and a score inside [0.5, 5.0].
C4_RatingsInScale ==
    \A k \in 1..Len(user_ratings) :
        /\ user_ratings[k].userId = USER_ID
        /\ \E c \in 1..Len(sample) :
              movies[sample[c]].movieId = user_ratings[k].movieId
        /\ user_ratings[k].rating >= 5
        /\ user_ratings[k].rating <= 50

\* C5: get_user_ratings prompts once per candidate in sequence order; a
\* non-numeric response records nothing, prints a warning and the loop
\* goes on, so the returned ratings are those of the numeric responses of
\* at least 0.5, in candidate order, at most one per candidate.
Asked == SelectSeq(out, LAMBDA l : l.msg = "ask_rating")
Warned == SelectSeq(out, LAMBDA l : l.msg = "invalid")
NonNumeric(k) == ParseFloat(responses[k]) = ValueError
Accepted == {k \in 1..Len(responses) :
                ~NonNumeric(k) /\ ParseFloat(responses[k]) >= 5}
Position(k) == Cardinality({j \in Accepted : j <= k})

C5_CollectorSkipsInvalid ==
    /\ pc = "rate" => Len(responses) = i - 1
    /\ Collected => Len(responses) = Len(sample)
    /\ Len(Asked) = Len(responses)
    /\ \A k \in 1..Len(Asked) : Asked[k].title = movies[sample[k]].title
    /\ Len(Warned) = Cardinality({k \in 1..Len(responses) : NonNumeric(k)})
    /\ Len(user_ratings) = Cardinality(Accepted)
    /\ \A k \in Accepted :
          user_ratings[Position(k)] =
              [userId |-> USER_ID, movieId |-> movies[sample[k]].movieId,
               rating |-> ParseFloat(responses[k])]

\* C5 witness: a non-numeric response to an earlier candidate, a rating
\* accepted for a later one, and the collector has returned.
C5_Witness ==
    /\ Collected
    /\ \E a, b \in 1..Len(responses) :
          a < b /\ NonNumeric(a) /\ b \in Accepted

\* C6: append_user_data returns the rows of base in order followed by the
\* rows of the additions in order, nothing dropped or changed; its length
\* is the sum of the lengths, merging nothing gives base, and base is left
\* as it was.
C6_MergeState ==
    pc = "merged" =>
        /\ Len(all_ratings) = Len(ratings) + Len(user_ratings)
        /\ \A k \in 1..Len(ratings) : all_ratings[k] = ratings[k]
        /\ \A k \in 1..Len(user_ratings) :
              all_ratings[Len(ratings) + k] = user_ratings[k]
        /\ (user_ratings = <<>> => all_ratings = ratings)

C6_MergeConcatenates ==
    /\ []C6_MergeState
    /\ [][ratings' = ratings /\ user_ratings' = user_ratings]_vars

\* C6 witness: a merge of a non-empty base with additions that repeat one
\* of its rows.
C6_Witness ==
    /\ pc = "merged"
    /\ ratings # <<>>
    /\ \E a \in 1..Len(ratings), b \in 1..Len(user_ratings) :
          ratings[a] = user_ratings[b]

\* C7: the stages run in the order sample, collect, merge, recommend,
\* print; train_and_recommend is called only after the collector returned
\* at least one rating; with no usable rating a message is printed and the
\* process exits without merging or fitting; when sampling finds no match
\* the process exits before any rating prompt.
Stages ==
    <<"get_movies_by_genre_and_year", "get_user_ratings",
      "append_user_data", "train_and_recommend">>

C7_StageOrder ==
    /\ Len(calls) <= Len(Stages)
    /\ calls = SubSeq(Stages, 1, Len(calls))
    /\ Printed("top_recommendations") => calls = Stages
    /\ pc = "done" => Printed("top_recommendations")
    /\ Called("append_user_data") => user_ratings # <<>>
    /\ Called("train_and_recommend") => user_ratings # <<>>
    /\ (Collected /\ user_ratings = <<>>) =>
          /\ pc = "exit"
          /\ out[Len(out)] = Line("no_ratings")
          /\ all_ratings = <<>>
          /\ model = NoModel
    /\ Printed("no_match") =>
          /\ pc = "exit"
          /\ ~Printed("please_rate")
          /\ ~Printed("ask_rating")
          /\ Len(calls) = 1

\* C7 witness: every candidate was answered, none usably, and the process
\* has exited.
C7_Witness ==
    /\ pc = "exit"
    /\ Len(responses) >= 2
    /\ user_ratings = <<>>
    /\ Printed("no_ratings")

\* C8: whenever the recommendation result is empty the run tells the user
\* that there are no recommendations.
C8_EmptyResultSurfaced ==
    (pc = "done" /\ recs = <<>>) =>
        \/ Printed("no_unseen")
        \/ Printed("no_recommendations")

\* C9: no response sequence leaves an input failure unhandled.
C9_NoUnhandledFault ==
    fault = "none" /\ pc # "crash"

\* C10: the keys passed to predict are keys of the trained model: a user
\* id and a movie id that occur in the training table are known to the
\* model at prediction time.
C10_PredictKeysAreTrained ==
    Returned =>
        \A k \in 1..Len(predictions) :
            /\ (\E r \in 1..Len(all_ratings) :
                   all_ratings[r].userId = IntOf(predictions[k].uid))
                => predictions[k].uid \in model.users
            /\ (\E r \in 1..Len(all_ratings) :
                   all_ratings[r].movieId = IntOf(predictions[k].iid))
                => predictions[k].iid \in model.items

====
